---------------------------- MODULE Spec2Model ----------------------------
(***************************************************************************)
(* Bow-tie risk diagram builder (src/app.py): the flow state (nodes and    *)
(* edges), the sidebar handlers that edit it, and the aggregated risk      *)
(* model compute_residuals_aggregated that every script run applies        *)
(* before the canvas is rendered.                                          *)
(*                                                                         *)
(* Numbers.  Python computes the risk values in binary floating point.     *)
(* The model computes them exactly, as reduced fractions <<num, den>>      *)
(* with den > 0; an int and the float of the same value are one fraction   *)
(* (Python's == agrees: 9 == 9.0).                                         *)
(*                                                                         *)
(* Dictionaries.  node.data["meta"] is a function whose DOMAIN is the set  *)
(* of keys present, so that setdefault and get behave as in the code.      *)
(*                                                                         *)
(* Identifiers.  uid(prefix) is prefix + "_" + 8 random hex digits; the    *)
(* model writes it [prefix |-> p, n |-> k] and id.startswith(p + "_") is   *)
(* id.prefix = p.                                                          *)
(***************************************************************************)
EXTENDS Integers, Sequences, FiniteSets, TLC

VARIABLES
    nodes,    \* flow_state.nodes: the list of nodes, in creation order
    edges,    \* flow_state.edges: the list of edges
    pc,       \* where the script run stands: "script" (the handlers have run,
              \* the canvas block has not) or "canvas" (rendered, waiting)
    click,    \* the last button pressed
    warned,   \* whether this script run called st.warning
    nextId,   \* the next unused uid
    clicks,   \* number of buttons pressed so far in the session
    file,     \* history: the content of the file last uploaded
    load_error, \* whether this script run called st.error
    effs_in, \* the argument of a call of _combined_eff
    combined  \* the value that call returned

vars == <<nodes, edges, pc, click, warned, nextId, clicks, file, load_error,
          effs_in, combined>>

\* Bounds of the model
MaxClicks == 3
MaxFileNodes == 4
MaxFileEdges == 2

-----------------------------------------------------------------------------
(* Exact arithmetic on fractions *)

RECURSIVE GCD(_, _)
GCD(a, b) == IF b = 0 THEN a ELSE GCD(b, a % b)

Abs(a) == IF a < 0 THEN -a ELSE a

Frac(n, d) ==
    LET s == IF d < 0 THEN -1 ELSE 1
        g == GCD(Abs(n), Abs(d))
    IN  <<(s * n) \div g, (s * d) \div g>>

Q(n) == <<n, 1>>

RMul(x, y) == Frac(x[1] * y[1], x[2] * y[2])
RAdd(x, y) == Frac(x[1] * y[2] + y[1] * x[2], x[2] * y[2])
RSub(x, y) == Frac(x[1] * y[2] - y[1] * x[2], x[2] * y[2])
RLe(x, y) == x[1] * y[2] <= y[1] * x[2]
RLt(x, y) == x[1] * y[2] < y[1] * x[2]
RGe(x, y) == RLe(y, x)

-----------------------------------------------------------------------------
(* Python helpers *)

Max(a, b) == IF a >= b THEN a ELSE b
Min(a, b) == IF a <= b THEN a ELSE b

\* dict.get(k, default)
Get(m, k, default) == IF k \in DOMAIN m THEN m[k] ELSE default

\* dict.setdefault(k, v)
SetDefault(m, k, v) == IF k \in DOMAIN m THEN m ELSE m @@ (k :> v)

\* d[k] = v
Put(m, k, v) == (k :> v) @@ m

EmptyDict == [k \in {} |-> 0]

\* id.startswith(prefix + "_")
StartsWith(id, prefix) == id.prefix = prefix

None == [prefix |-> "None", n |-> 0]

SeqToSet(s) == {s[i] : i \in DOMAIN s}


\* Iteration over a Python set visits its elements in an order the language
\* leaves open; the values computed from it below are products, which do not
\* depend on that order.
RECURSIVE SetToSeq(_)
SetToSeq(S) ==
    IF S = {} THEN <<>>
    ELSE LET x == CHOOSE y \in S : TRUE
         IN  <<x>> \o SetToSeq(S \ {x})

\* A JSON file may hold a value that is no number where the code expects one.
\* The model writes a str without digits (such as "high") as NonDigit and null
\* (Python's None) as Null, two numbers that no attribute takes otherwise.
NonDigit == -1001
Null == -1002

\* int(x) raises ValueError for a str without digits and TypeError for None
int_raises(x) == x \in {NonDigit, Null}

\* int(x) of a Python int
int(x) == x

\* a * b raises TypeError when a or b is None and for str * str
mul_raises(a, b) == a = Null \/ b = Null \/ (a = NonDigit /\ b = NonDigit)

\* a * b of two ints; str * int and int * str are a str
mul(a, b) == IF a = NonDigit \/ b = NonDigit THEN NonDigit ELSE a * b

-----------------------------------------------------------------------------
(* Risk helpers *)

RED   == "#fecaca"
AMBER == "#fde68a"
GREEN == "#dcfce7"
PINK  == "#fee2e2"

\* Faulty variant: the band is taken from the residual rounded as in the badge
risk_color_rounded(risk) ==
    IF (2 * risk[1] + risk[2]) \div (2 * risk[2]) >= 20 THEN RED
    ELSE IF (2 * risk[1] + risk[2]) \div (2 * risk[2]) >= 12 THEN AMBER
    ELSE GREEN

risk_color(risk) ==
    IF RGe(risk, Q(20)) THEN RED
    ELSE IF RGe(risk, Q(12)) THEN AMBER
    ELSE GREEN

\* Faulty variant: severity is assigned, not defaulted
input_defaults_overwrite(id, m) ==
    IF StartsWith(id, "barrier")
    THEN SetDefault(SetDefault(SetDefault(Put(m, "severity", 3), "likelihood", 3),
                               "effectiveness", 0), "barrier_type", "preventive")
    ELSE SetDefault(Put(m, "severity", 3), "likelihood", 3)

\* Faulty variant: a barrier with no barrier_type becomes mitigative
input_defaults_mitigative(id, m) ==
    IF StartsWith(id, "barrier")
    THEN SetDefault(SetDefault(SetDefault(SetDefault(m, "severity", 3), "likelihood", 3),
                               "effectiveness", 0), "barrier_type", "mitigative")
    ELSE SetDefault(SetDefault(m, "severity", 3), "likelihood", 3)

\* meta.setdefault of severity, likelihood and, for barriers, effectiveness
\* and barrier_type
input_defaults(id, m) ==
    IF StartsWith(id, "barrier")
    THEN SetDefault(SetDefault(SetDefault(SetDefault(m, "severity", 3), "likelihood", 3),
                               "effectiveness", 0), "barrier_type", "preventive")
    ELSE SetDefault(SetDefault(m, "severity", 3), "likelihood", 3)

\* meta["base_risk"] once setdefault("base_risk", severity * likelihood) has run
base_risk_default(m) == Get(m, "base_risk", Q(mul(m["severity"], m["likelihood"])))

\* meta.setdefault of base_risk, current_risk and residual_risk
risk_defaults(m) ==
    SetDefault(SetDefault(SetDefault(m, "base_risk", base_risk_default(m)),
                          "current_risk", base_risk_default(m)),
               "residual_risk", base_risk_default(m))

ensure_meta(node) ==
    [node EXCEPT !.meta = risk_defaults(input_defaults(node.id, node.meta))]

\* meta["severity"] * meta["likelihood"], the argument of setdefault("base_risk", ..),
\* is evaluated whether base_risk is present or not
ensure_meta_raises(node) ==
    mul_raises(input_defaults(node.id, node.meta)["severity"],
               input_defaults(node.id, node.meta)["likelihood"])

\* the node as ensure_meta leaves it when the multiplication raises
ensure_meta_interrupted(node) ==
    [node EXCEPT !.meta = input_defaults(node.id, node.meta)]

RECURSIVE prod(_)
prod(xs) == IF xs = <<>> THEN Q(1) ELSE RMul(Head(xs), prod(Tail(xs)))

\* Faulty variant: the barriers do not compound, the best one alone counts
_combined_eff_best(effs_pct) ==
    IF effs_pct = <<>> THEN Q(0)
    ELSE LET best == CHOOSE i \in DOMAIN effs_pct :
                         \A j \in DOMAIN effs_pct : effs_pct[j] <= effs_pct[i]
         IN  Frac(Max(0, Min(100, int(effs_pct[best]))), 100)

\* Faulty variant: the product of the complements is returned as the combined effectiveness
_combined_eff_complement(effs_pct) ==
    IF effs_pct = <<>> THEN Q(0)
    ELSE prod([i \in DOMAIN effs_pct |->
                 RSub(Q(1), Frac(Max(0, Min(100, int(effs_pct[i]))), 100))])

\* Faulty variant: the percentages are not clamped to 0..100
_combined_eff_unclamped(effs_pct) ==
    IF effs_pct = <<>> THEN Q(0)
    ELSE RSub(Q(1), prod([i \in DOMAIN effs_pct |->
                            RSub(Q(1), Frac(int(effs_pct[i]), 100))]))

_combined_eff(effs_pct) ==
    IF effs_pct = <<>> THEN Q(0)
    ELSE LET effs == [i \in DOMAIN effs_pct |->
                         Frac(Max(0, Min(100, int(effs_pct[i]))), 100)]
         IN  RSub(Q(1), prod([i \in DOMAIN effs |-> RSub(Q(1), effs[i])]))

-----------------------------------------------------------------------------
(* compute_residuals_aggregated: lookups *)

HasNode(ns, id) == \E i \in DOMAIN ns : ns[i].id = id

\* nodes_by_id = {n.id: n for n in state.nodes}: the last node wins
IndexById(ns, id) ==
    CHOOSE i \in DOMAIN ns :
        ns[i].id = id /\ \A j \in DOMAIN ns : j > i => ns[j].id # id

nodes_by_id(ns, id) == ns[IndexById(ns, id)]

out_edges(es, id) == SelectSeq(es, LAMBDA e : e.source = id)
in_edges(es, id) == SelectSeq(es, LAMBDA e : e.target = id)

\* Faulty variant: the first center of the list is taken
center_id_of_first(ns) ==
    LET center_ids == SelectSeq(ns, LAMBDA n : StartsWith(n.id, "center"))
    IN  IF center_ids # <<>> THEN center_ids[1].id ELSE None

center_id_of(ns) ==
    LET center_ids == SelectSeq(ns, LAMBDA n : StartsWith(n.id, "center"))
    IN  IF center_ids # <<>> THEN center_ids[Len(center_ids)].id ELSE None

-----------------------------------------------------------------------------
(* compute_residuals_aggregated: the four passes.  ns is the node list after *)
(* ensure_meta, es the edge list.                                           *)

\* Faulty variant: every preventive barrier of the graph is owned, connected or not
owned_barriers_every(ns, es, n, center_id) ==
    {ns[i].id : i \in {j \in DOMAIN ns : StartsWith(ns[j].id, "barrier")}}

\* Faulty variant: only the barriers the threat points at are owned
owned_barriers_direct(ns, es, n, center_id) ==
    {e.target : e \in {x \in SeqToSet(out_edges(es, n.id)) :
        HasNode(ns, x.target) /\ StartsWith(x.target, "barrier")}}

\* Preventive barriers "owned" by threat n:
\*   a) edges threat -> barrier,  b) barriers with an edge into the center
owned_barriers(ns, es, n, center_id) ==
    LET a == {e.target : e \in {x \in SeqToSet(out_edges(es, n.id)) :
                  HasNode(ns, x.target) /\ StartsWith(x.target, "barrier")}}
        b == IF center_id # None
             THEN {e.source : e \in {x \in SeqToSet(in_edges(es, center_id)) :
                       HasNode(ns, x.source) /\ StartsWith(x.source, "barrier")}}
             ELSE {}
    IN  a \cup b

\* the owned barriers that exist and whose barrier_type is preventive
credited_barriers(ns, owned) ==
    {bid \in owned :
        /\ HasNode(ns, bid)
        /\ Get(nodes_by_id(ns, bid).meta, "barrier_type", "preventive") = "preventive"}

\* effs: the effectiveness of each credited barrier
effs_of(ns, order) ==
    [i \in DOMAIN order |-> int(Get(nodes_by_id(ns, order[i]).meta, "effectiveness", 0))]

threat_effs(ns, owned) == effs_of(ns, SetToSeq(credited_barriers(ns, owned)))

node_base(n) ==
    int(Get(n.meta, "severity", 3)) * int(Get(n.meta, "likelihood", 3))

\* meta["base_risk"], meta["current_risk"], meta["residual_risk"] and the tint
set_risk(n, base, current, residual) ==
    [n EXCEPT !.meta = Put(Put(Put(n.meta, "base_risk", base), "current_risk", current),
                           "residual_risk", residual),
              !.bg = risk_color(residual)]

\* Faulty variant: the residual stored by the previous run is reduced again
threat_residual_compounding(ns, es, n, center_id) ==
    RMul(Get(n.meta, "residual_risk", Q(node_base(n))),
         RSub(Q(1), _combined_eff(threat_effs(ns, owned_barriers(ns, es, n, center_id)))))

threat_residual(ns, es, n, center_id) ==
    RMul(Q(node_base(n)),
         RSub(Q(1), _combined_eff(threat_effs(ns, owned_barriers(ns, es, n, center_id)))))

\* Faulty variant: a threat's current_risk is its base risk
store_threat_current_base(n, residual) ==
    set_risk(n, Q(node_base(n)), Q(node_base(n)), residual)

\* for threats, "current" == "residual after their own prev barriers"
store_threat(n, residual) == set_risk(n, Q(node_base(n)), residual, residual)

pass_threat(ns, es, n, center_id) ==
    store_threat(n, threat_residual(ns, es, n, center_id))

\* threat_residuals is keyed by node id; sum(threat_residuals.values())
RECURSIVE SumResiduals(_, _)
SumResiduals(ns, ids) ==
    IF ids = {} THEN Q(0)
    ELSE LET id == CHOOSE x \in ids : TRUE
         IN  RAdd(nodes_by_id(ns, id).meta["residual_risk"],
                  SumResiduals(ns, ids \ {id}))

sum_threats(ns) ==
    SumResiduals(ns, {ns[i].id : i \in {j \in DOMAIN ns : StartsWith(ns[j].id, "threat")}})

\* effectiveness of each edge into target whose source is a barrier of type btype
\* (one entry per edge); an absent barrier_type reads as dflt
edge_effs(ns, es, target, btype, dflt) ==
    LET kept == SelectSeq(in_edges(es, target), LAMBDA e :
                    /\ HasNode(ns, e.source)
                    /\ StartsWith(e.source, "barrier")
                    /\ Get(nodes_by_id(ns, e.source).meta, "barrier_type", dflt) = btype)
    IN  [i \in DOMAIN kept |->
            int(Get(nodes_by_id(ns, kept[i].source).meta, "effectiveness", 0))]

store_center(cnode, c_current, combined_prev_center) ==
    set_risk(cnode, Q(node_base(cnode)), c_current,
             RMul(c_current, RSub(Q(1), combined_prev_center)))

pass_center(ns, es, cnode, sum) ==
    store_center(cnode, sum,
                 _combined_eff(edge_effs(ns, es, cnode.id, "preventive", "preventive")))

store_consequence(n, c_current, combined_mit) ==
    set_risk(n, Q(node_base(n)), c_current, RMul(c_current, RSub(Q(1), combined_mit)))

pass_consequence(ns, es, n, c_residual) ==
    store_consequence(n, RMul(c_residual, Q(node_base(n))),
                      _combined_eff(edge_effs(ns, es, n.id, "mitigative", "mitigative")))

barrier_color(beff) ==
    IF beff >= 75 THEN GREEN
    ELSE IF beff >= 40 THEN AMBER
    ELSE PINK

pass_barrier(n) ==
    [n EXCEPT !.bg = barrier_color(Max(0, Min(100, int(Get(n.meta, "effectiveness", 0)))))]

\* 1) Threat residuals
pass1(ns, es, center_id) ==
    [i \in DOMAIN ns |->
        IF StartsWith(ns[i].id, "threat")
        THEN pass_threat(ns, es, ns[i], center_id)
        ELSE ns[i]]

\* 2) Center (Top Event)
pass2(ns, es, center_id) ==
    IF center_id # None
    THEN [ns EXCEPT ![IndexById(ns, center_id)] =
             pass_center(ns, es, nodes_by_id(ns, center_id), sum_threats(ns))]
    ELSE ns

\* Faulty variant: with no center the consequences are weighted by the sum of the threats
c_residual_of_sum(ns, center_id) ==
    IF center_id # None
    THEN nodes_by_id(ns, center_id).meta["residual_risk"]
    ELSE sum_threats(ns)

\* c_residual as the consequences read it: 0.0 when there is no center
c_residual_of(ns, center_id) ==
    IF center_id # None
    THEN nodes_by_id(ns, center_id).meta["residual_risk"]
    ELSE Q(0)

\* 3) Consequences
pass3(ns, es, c_residual) ==
    [i \in DOMAIN ns |->
        IF StartsWith(ns[i].id, "conseq")
        THEN pass_consequence(ns, es, ns[i], c_residual)
        ELSE ns[i]]

\* 4) Tint barriers by their effectiveness
pass4(ns) ==
    [i \in DOMAIN ns |->
        IF StartsWith(ns[i].id, "barrier") THEN pass_barrier(ns[i]) ELSE ns[i]]

pass3_after2(ns, es, center_id) == pass3(ns, es, c_residual_of(ns, center_id))

passes(ns, es, center_id) ==
    pass4(pass3_after2(pass2(pass1(ns, es, center_id), es, center_id), es, center_id))

ensure_all(ns) == [i \in DOMAIN ns |-> ensure_meta(ns[i])]

compute_with_meta(ns, es) == passes(ns, es, center_id_of(ns))

compute_residuals_aggregated(ns, es) == compute_with_meta(ensure_all(ns), es)

-----------------------------------------------------------------------------
(* compute_residuals_aggregated: exceptions.  An int() or a multiplication    *)
(* that raises ends the run at once; the nodes handled before keep what the  *)
(* run wrote to them.  Whether a step raises depends on severity,            *)
(* likelihood, effectiveness and barrier_type only, which no pass writes.    *)

FirstOf(S) == CHOOSE i \in S : \A j \in S : i <= j

node_base_raises(n) ==
    int_raises(Get(n.meta, "severity", 3)) \/ int_raises(Get(n.meta, "likelihood", 3))

\* effs.append(int(bmeta.get("effectiveness", 0))) for a credited barrier
threat_raises(ns, es, n, center_id) ==
    \/ node_base_raises(n)
    \/ \E bid \in credited_barriers(ns, owned_barriers(ns, es, n, center_id)) :
           int_raises(Get(nodes_by_id(ns, bid).meta, "effectiveness", 0))

edge_effs_raises(ns, es, target, btype, dflt) ==
    \E e \in SeqToSet(in_edges(es, target)) :
        /\ HasNode(ns, e.source)
        /\ StartsWith(e.source, "barrier")
        /\ Get(nodes_by_id(ns, e.source).meta, "barrier_type", dflt) = btype
        /\ int_raises(Get(nodes_by_id(ns, e.source).meta, "effectiveness", 0))

center_raises(ns, es, center_id) ==
    /\ center_id # None
    /\ \/ node_base_raises(nodes_by_id(ns, center_id))
       \/ edge_effs_raises(ns, es, center_id, "preventive", "preventive")

consequence_raises(ns, es, n) ==
    node_base_raises(n) \/ edge_effs_raises(ns, es, n.id, "mitigative", "mitigative")

barrier_raises(n) == int_raises(Get(n.meta, "effectiveness", 0))

\* the nodes at which each loop raises
ensure_raising(ns) == {i \in DOMAIN ns : ensure_meta_raises(ns[i])}

pass1_raising(ns, es, center_id) ==
    {i \in DOMAIN ns : StartsWith(ns[i].id, "threat")
                         /\ threat_raises(ns, es, ns[i], center_id)}

pass3_raising(ns, es) ==
    {i \in DOMAIN ns : StartsWith(ns[i].id, "conseq") /\ consequence_raises(ns, es, ns[i])}

pass4_raising(ns) ==
    {i \in DOMAIN ns : StartsWith(ns[i].id, "barrier") /\ barrier_raises(ns[i])}

passes_raise(ns, es, center_id) ==
    \/ pass1_raising(ns, es, center_id) # {}
    \/ center_raises(ns, es, center_id)
    \/ pass3_raising(ns, es) # {}
    \/ pass4_raising(ns) # {}

\* some severity, likelihood or effectiveness of the graph is no number
has_non_number(ns) ==
    \E i \in DOMAIN ns :
        \E k \in DOMAIN ns[i].meta \cap {"severity", "likelihood", "effectiveness"} :
            int_raises(ns[i].meta[k])

\* whether compute_residuals_aggregated raises on this state: only an attribute
\* that is no number makes a step raise
compute_raises(ns, es) ==
    /\ has_non_number(ns)
    /\ \/ ensure_raising(ns) # {}
       \/ passes_raise(ensure_all(ns), es, center_id_of(ns))

\* each loop up to the node k at which it raises
ensure_until(ns, k) ==
    [i \in DOMAIN ns |->
        IF i < k THEN ensure_meta(ns[i])
        ELSE IF i = k THEN ensure_meta_interrupted(ns[i])
        ELSE ns[i]]

pass1_until(ns, es, center_id, k) ==
    [i \in DOMAIN ns |->
        IF i < k /\ StartsWith(ns[i].id, "threat")
        THEN pass_threat(ns, es, ns[i], center_id)
        ELSE ns[i]]

pass3_until(ns, es, c_residual, k) ==
    [i \in DOMAIN ns |->
        IF i < k /\ StartsWith(ns[i].id, "conseq")
        THEN pass_consequence(ns, es, ns[i], c_residual)
        ELSE ns[i]]

pass4_until(ns, k) ==
    [i \in DOMAIN ns |->
        IF i < k /\ StartsWith(ns[i].id, "barrier") THEN pass_barrier(ns[i]) ELSE ns[i]]

\* the nodes as a run that raises leaves them: ns after pass 2
pass3_interrupted(ns, es, center_id) ==
    IF pass3_raising(ns, es) # {}
    THEN pass3_until(ns, es, c_residual_of(ns, center_id), FirstOf(pass3_raising(ns, es)))
    ELSE pass4_until(pass3_after2(ns, es, center_id), FirstOf(pass4_raising(ns)))

\* ns after pass 1
pass2_interrupted(ns, es, center_id) ==
    IF center_raises(ns, es, center_id)
    THEN ns
    ELSE pass3_interrupted(pass2(ns, es, center_id), es, center_id)

\* ns after ensure_meta
passes_interrupted(ns, es, center_id) ==
    IF pass1_raising(ns, es, center_id) # {}
    THEN pass1_until(ns, es, center_id, FirstOf(pass1_raising(ns, es, center_id)))
    ELSE pass2_interrupted(pass1(ns, es, center_id), es, center_id)

compute_interrupted(ns, es) ==
    IF ensure_raising(ns) # {}
    THEN ensure_until(ns, FirstOf(ensure_raising(ns)))
    ELSE passes_interrupted(ensure_all(ns), es, center_id_of(ns))

-----------------------------------------------------------------------------
(* Node and edge factories *)

uid(prefix, k) == [prefix |-> prefix, n |-> k]

WHITE == "#ffffff"

NewNode(prefix, k, background) ==
    ensure_meta([id |-> uid(prefix, k), meta |-> EmptyDict, bg |-> background])

make_center_node(k) == NewNode("center", k, WHITE)

make_threat_node(k) == NewNode("threat", k, "#f6f8fa")

make_consequence_node(k) == NewNode("conseq", k, "#fff7ed")

make_barrier_node(k, barrier_type, effectiveness_pct) ==
    LET node == NewNode("barrier", k, "#e8f5e9")
    IN  [node EXCEPT !.meta = Put(Put(node.meta, "barrier_type", barrier_type),
                                  "effectiveness", int(effectiveness_pct))]

make_edge(k, source, target) == [id |-> uid("e", k), source |-> source, target |-> target]

Ids(ns) == {ns[i].id : i \in DOMAIN ns}

\* centers = [n.id for n in flow_state.nodes if n.id.startswith("center_")]
centers(ns) == SelectSeq(ns, LAMBDA n : StartsWith(n.id, "center"))

-----------------------------------------------------------------------------
(* The values a user picks on the sliders and select boxes *)

Severities == {3, 4}
Likelihoods == {3, 5}
SliderEffs == {0, 50, 75, 100}
BarrierTypes == {"preventive", "mitigative"}

-----------------------------------------------------------------------------
(* The script run *)

\* no file has been uploaded
NoFile == [nodes |-> <<>>, edges |-> <<>>, name |-> "(no file)"]

Init ==
    /\ nodes = <<make_center_node(0)>>
    /\ edges = <<>>
    /\ pc = "script"
    /\ click = "start"
    /\ warned = FALSE
    /\ nextId = 1
    /\ clicks = 0
    /\ file = NoFile
    /\ load_error = FALSE
    /\ effs_in = <<>>
    /\ combined = Q(0)

\* A button pressed on the rendered page starts a script run; its handler runs
\* before the canvas block.
Press(name) ==
    /\ pc = "canvas"
    /\ clicks < MaxClicks
    /\ pc' = "script"
    /\ click' = name
    /\ clicks' = clicks + 1
    /\ load_error' = FALSE
    /\ UNCHANGED <<file, effs_in, combined>>

\* Faulty variant: the new Top Event is appended, the old one stays
SetReplaceTopEvent_append ==
    /\ Press("Set / Replace Top Event")
    /\ nodes' = Append(nodes, make_center_node(nextId))
    /\ nextId' = nextId + 1
    /\ warned' = FALSE
    /\ UNCHANGED edges

SetReplaceTopEvent ==
    /\ Press("Set / Replace Top Event")
    /\ LET center_ids == {id \in Ids(nodes) : StartsWith(id, "center")}
       IN  /\ nodes' = Append(SelectSeq(nodes, LAMBDA n : n.id \notin center_ids),
                              make_center_node(nextId))
           /\ edges' = SelectSeq(edges, LAMBDA e :
                           e.source \notin center_ids /\ e.target \notin center_ids)
    /\ nextId' = nextId + 1
    /\ warned' = FALSE

AddThreat(t_link) ==
    /\ Press("Add Threat")
    /\ LET node == make_threat_node(nextId)
           ns == Append(nodes, node)
           cs == centers(ns)
       IN  /\ nodes' = ns
           /\ edges' = IF t_link /\ cs # <<>>
                       THEN Append(edges, make_edge(nextId + 1, node.id, cs[Len(cs)].id))
                       ELSE edges
    /\ nextId' = nextId + 2
    /\ warned' = FALSE

AddConsequence(c_link) ==
    /\ Press("Add Consequence")
    /\ LET node == make_consequence_node(nextId)
           ns == Append(nodes, node)
           cs == centers(ns)
       IN  /\ nodes' = ns
           /\ edges' = IF c_link /\ cs # <<>>
                       THEN Append(edges, make_edge(nextId + 1, cs[Len(cs)].id, node.id))
                       ELSE edges
    /\ nextId' = nextId + 2
    /\ warned' = FALSE

\* The entries of the two select boxes that are no node id
NonePick == [prefix |-> "(none)", n |-> 0]
TopEventPick == [prefix |-> "(Top Event)", n |-> 0]

\* src_pick is "(none)" or a node id, tgt_pick is "(Top Event)" or a node id
AddBarrier(b_type, b_eff, src_pick, tgt_pick) ==
    /\ Press("Add Barrier")
    /\ LET node == make_barrier_node(nextId, b_type, b_eff)
           ns == Append(nodes, node)
           cs == centers(ns)
           es1 == IF src_pick # NonePick
                  THEN Append(edges, make_edge(nextId + 1, src_pick, node.id))
                  ELSE edges
           es2 == IF tgt_pick = TopEventPick
                  THEN IF cs # <<>>
                       THEN Append(es1, make_edge(nextId + 2, node.id, cs[Len(cs)].id))
                       ELSE es1
                  ELSE Append(es1, make_edge(nextId + 2, node.id, tgt_pick))
       IN  /\ nodes' = ns
           /\ edges' = es2
    /\ nextId' = nextId + 3
    /\ warned' = FALSE

\* Faulty variant: the node is removed, its edges are kept
DeleteNode_nodes_only(picked_id) ==
    /\ Press("Delete node")
    /\ nodes' = SelectSeq(nodes, LAMBDA n : n.id # picked_id)
    /\ warned' = FALSE
    /\ UNCHANGED <<edges, nextId>>

DeleteNode(picked_id) ==
    /\ Press("Delete node")
    /\ nodes' = SelectSeq(nodes, LAMBDA n : n.id # picked_id)
    /\ edges' = SelectSeq(edges, LAMBDA e : e.source # picked_id /\ e.target # picked_id)
    /\ warned' = FALSE
    /\ UNCHANGED nextId

\* node = next(n for n in flow_state.nodes if n.id == picked_id)
FirstIndexById(ns, id) ==
    CHOOSE i \in DOMAIN ns :
        ns[i].id = id /\ \A j \in DOMAIN ns : j < i => ns[j].id # id

SaveRisk(picked_id, sev, lik, eff, btype) ==
    /\ Press("Save risk")
    /\ LET i == FirstIndexById(nodes, picked_id)
           m1 == Put(Put(nodes[i].meta, "severity", int(sev)), "likelihood", int(lik))
           m2 == IF StartsWith(picked_id, "barrier")
                 THEN Put(Put(m1, "effectiveness", int(eff)), "barrier_type", btype)
                 ELSE m1
       IN  nodes' = [nodes EXCEPT ![i].meta = m2]
    /\ warned' = FALSE
    /\ UNCHANGED <<edges, nextId>>

\* Faulty variant: the edge is appended without the check
AddEdge_unchecked(src, tgt) ==
    /\ Press("Add edge")
    /\ edges' = Append(edges, make_edge(nextId, src, tgt))
    /\ nextId' = nextId + 1
    /\ warned' = FALSE
    /\ UNCHANGED nodes

AddEdge(src, tgt) ==
    /\ Press("Add edge")
    /\ IF src # tgt /\ \A i \in DOMAIN edges :
                          ~(edges[i].source = src /\ edges[i].target = tgt)
       THEN /\ edges' = Append(edges, make_edge(nextId, src, tgt))
            /\ nextId' = nextId + 1
            /\ warned' = FALSE
       ELSE /\ warned' = TRUE
            /\ UNCHANGED <<edges, nextId>>
    /\ UNCHANGED nodes

DeleteEdge(del_id) ==
    /\ Press("Delete selected edge")
    /\ edges' = SelectSeq(edges, LAMBDA e : e.id # del_id)
    /\ warned' = FALSE
    /\ UNCHANGED <<nodes, nextId>>

\* A script run that no button started (another widget changed, the canvas
\* reported a drag or a selection)
Rerun ==
    /\ pc \in {"canvas", "error"}
    /\ pc' = "script"
    /\ warned' = FALSE
    /\ load_error' = FALSE
    /\ UNCHANGED <<nodes, edges, click, nextId, clicks, file, effs_in, combined>>

\* The canvas block: compute the aggregated model, then render.  An exception
\* of compute ends the script run: the page shows the traceback and no canvas.
Canvas ==
    /\ pc = "script"
    /\ IF compute_raises(nodes, edges)
       THEN /\ nodes' = compute_interrupted(nodes, edges)
            /\ pc' = "error"
       ELSE /\ nodes' = compute_residuals_aggregated(nodes, edges)
            /\ pc' = "canvas"
    /\ UNCHANGED <<edges, click, warned, nextId, clicks, file, load_error,
                    effs_in, combined>>

-----------------------------------------------------------------------------
(* Save / Load: the files a user may upload *)

\* A file lists some of these nodes, in this order; the node of slot i has the
\* id <prefix>_<100 + i>
FileSlots == <<"center", "threat", "threat", "barrier", "barrier", "conseq", "center">>

FileLevels == {<<3, 3>>, <<4, 3>>, <<4, 5>>}
FileEffs == {-20, 50, 75, 130}

\* data["meta"] of a node of a file
FileMetas(prefix) ==
    CASE prefix = "threat" ->
            {[severity |-> l[1], likelihood |-> l[2]] : l \in FileLevels}
      [] prefix = "barrier" ->
            {[effectiveness |-> e, barrier_type |-> t] : e \in FileEffs, t \in BarrierTypes}
      [] prefix = "conseq" -> {[severity |-> 4, likelihood |-> 5]}
      [] OTHER -> {EmptyDict}

FileNodes(i) ==
    {[id |-> uid(FileSlots[i], 100 + i), meta |-> m, bg |-> WHITE] :
        m \in FileMetas(FileSlots[i])}

RECURSIVE FileNodeListsFrom(_)
FileNodeListsFrom(i) ==
    IF i > Len(FileSlots) THEN {<<>>}
    ELSE LET rest == FileNodeListsFrom(i + 1)
         IN  rest \cup {<<n>> \o r : n \in FileNodes(i), r \in rest}

FileNodeLists == {ns \in FileNodeListsFrom(1) : Len(ns) <= MaxFileNodes}

\* the non-decreasing sequences of at most k numbers of lo..hi
RECURSIVE NonDecreasing(_, _, _)
NonDecreasing(k, lo, hi) ==
    IF k = 0 THEN {<<>>}
    ELSE {<<>>} \cup UNION {{<<a>> \o r : r \in NonDecreasing(k - 1, a, hi)} : a \in lo..hi}

\* The edge lists of a file over the node list ns: at most MaxFileEdges edges
\* between two different nodes, the same pair possibly twice
FileEdgeLists(ns) ==
    LET pairs == SetToSeq({p \in (DOMAIN ns) \X (DOMAIN ns) : p[1] # p[2]})
    IN  {[t \in DOMAIN idx |->
             [id |-> uid("e", 200 + t),
              source |-> ns[pairs[idx[t]][1]].id,
              target |-> ns[pairs[idx[t]][2]].id]] :
            idx \in NonDecreasing(MaxFileEdges, 1, Len(pairs))}

\* jsonable_to_state(blob).nodes
jsonable_to_state(file_nodes) == [i \in DOMAIN file_nodes |-> ensure_meta(file_nodes[i])]

\* ensure_meta raises for a node of the file
jsonable_to_state_raises(file_nodes) ==
    /\ has_non_number(file_nodes)
    /\ \E i \in DOMAIN file_nodes : ensure_meta_raises(file_nodes[i])

\* try: flow_state = jsonable_to_state(data); compute(flow_state); st.rerun()
\* except Exception: st.error(..)
\*   - jsonable_to_state raises: the flow state stays, the run goes on to the
\*     canvas block;
\*   - compute raises: the state of the file has replaced the flow state and
\*     keeps what compute wrote before it raised; the run goes on to the canvas
\*     block, which computes the flow_state object the run started with and
\*     renders the state just loaded;
\*   - otherwise st.rerun() starts the next script run.
load_handler(file_nodes, file_edges) ==
    IF jsonable_to_state_raises(file_nodes)
    THEN /\ load_error' = TRUE
         /\ pc' = "script"
         /\ UNCHANGED <<nodes, edges>>
    ELSE IF compute_raises(jsonable_to_state(file_nodes), file_edges)
    THEN /\ load_error' = TRUE
         /\ nodes' = compute_interrupted(jsonable_to_state(file_nodes), file_edges)
         /\ edges' = file_edges
         /\ pc' = IF compute_raises(nodes, edges) THEN "error" ELSE "canvas"
    ELSE /\ load_error' = FALSE
         /\ nodes' = compute_residuals_aggregated(jsonable_to_state(file_nodes), file_edges)
         /\ edges' = file_edges
         /\ pc' = "script"

\* "Load from JSON": the user picks a file in the uploader; the script run that
\* follows loads it.  While the file stays in the uploader every script run
\* loads it again and calls st.rerun(); the canvas is rendered once the user
\* has taken the file out again, which this step includes.
LoadFromJSON(file_nodes, file_edges) ==
    /\ pc = "canvas"
    /\ clicks < MaxClicks
    /\ click' = "Load from JSON"
    /\ clicks' = clicks + 1
    /\ file' = [nodes |-> file_nodes, edges |-> file_edges, name |-> "bowtie.json"]
    /\ load_handler(file_nodes, file_edges)
    /\ warned' = FALSE
    /\ UNCHANGED <<nextId, effs_in, combined>>

-----------------------------------------------------------------------------
(* Files written by hand or by other tools *)

FileNode(prefix, k, m) == [id |-> uid(prefix, k), meta |-> m, bg |-> WHITE]

\* the node lists that take at most one node of each slot, in the order of the slots
RECURSIVE ListsFrom(_, _)
ListsFrom(slots, i) ==
    IF i > Len(slots) THEN {<<>>}
    ELSE LET rest == ListsFrom(slots, i + 1)
         IN  rest \cup {<<n>> \o r : n \in slots[i], r \in rest}

\* the increasing sequences of at most k numbers of lo..hi
RECURSIVE Increasing(_, _, _)
Increasing(k, lo, hi) ==
    IF k = 0 THEN {<<>>}
    ELSE {<<>>} \cup UNION {{<<a>> \o r : r \in Increasing(k - 1, a + 1, hi)} : a \in lo..hi}

\* the edge lists of at most k edges over the <<source, target>> pairs of ends,
\* no pair twice
EdgeListsOver(ends, k) ==
    LET pairs == SetToSeq(ends)
    IN  {[t \in DOMAIN idx |->
             [id |-> uid("e", 200 + t),
              source |-> pairs[idx[t]][1],
              target |-> pairs[idx[t]][2]]] :
            idx \in Increasing(k, 1, Len(pairs))}

\* Files in which attributes are missing: data["meta"] holds some of severity,
\* likelihood, effectiveness and barrier_type, or none.  A severity that is
\* present is 4, a likelihood 5, an effectiveness 50.
MaxIncompleteEdges == 2

IncompleteSlots ==
    << {FileNode("center", 301, m) :
            m \in {EmptyDict, [severity |-> 4]}},
       {FileNode("threat", 302, m) :
            m \in {EmptyDict, [severity |-> 4], [likelihood |-> 5],
                   [severity |-> 4, likelihood |-> 5]}},
       {FileNode("barrier", 303, m) :
            m \in {EmptyDict, [effectiveness |-> 50], [barrier_type |-> "mitigative"],
                   [effectiveness |-> 50, barrier_type |-> "mitigative"],
                   [effectiveness |-> 50, barrier_type |-> "preventive"]}},
       {FileNode("conseq", 304, m) :
            m \in {EmptyDict, [likelihood |-> 5], [severity |-> 4, likelihood |-> 5]}} >>

IncompleteFiles ==
    UNION {{[nodes |-> ns, edges |-> es] :
               es \in EdgeListsOver({p \in Ids(ns) \X Ids(ns) : p[1] # p[2]},
                                    MaxIncompleteEdges)} :
           ns \in ListsFrom(IncompleteSlots, 1)}

\* Files in which a severity, a likelihood or an effectiveness is no number
MaxMalformedEdges == 2

MalformedSlots ==
    << {FileNode("center", 401, EmptyDict)},
       {FileNode("threat", 402, [severity |-> s, likelihood |-> l]) :
            s \in {4, NonDigit, Null}, l \in {5, NonDigit}},
       {FileNode("barrier", 403, [effectiveness |-> e, barrier_type |-> t]) :
            e \in {50, NonDigit, Null}, t \in BarrierTypes},
       {FileNode("conseq", 404, [severity |-> s, likelihood |-> 5]) :
            s \in {4, NonDigit}} >>

MalformedFiles ==
    UNION {{[nodes |-> ns, edges |-> es] :
               es \in EdgeListsOver({p \in Ids(ns) \X Ids(ns) : p[1] # p[2]},
                                    MaxMalformedEdges)} :
           ns \in ListsFrom(MalformedSlots, 1)}

\* Files with a malformed topology: edges between any two nodes, a node and
\* itself, and edges whose source or target is the id of no node of the file
MaxTopologyEdges == 2

TopologySlots ==
    << {FileNode("center", 501, [severity |-> 4, likelihood |-> 5])},
       {FileNode("threat", 502, [severity |-> 4, likelihood |-> 5])},
       {FileNode("barrier", 503, [effectiveness |-> 50, barrier_type |-> t]) :
            t \in BarrierTypes},
       {FileNode("conseq", 504, [severity |-> 2, likelihood |-> 3])} >>

NoSuchNodes == {uid("barrier", 900), uid("center", 901)}

TopologyFiles ==
    UNION {{[nodes |-> ns, edges |-> es] :
               es \in EdgeListsOver((Ids(ns) \cup NoSuchNodes) \X (Ids(ns) \cup NoSuchNodes),
                                    MaxTopologyEdges)} :
           ns \in ListsFrom(TopologySlots, 1)}

\* Files whose values lie at and next to the thresholds of the display bands
MaxBandEdges == 2

BandEffs == {-20, 1, 39, 40, 74, 75, 130}

BandSlots ==
    << {FileNode("center", 601, [severity |-> 3, likelihood |-> 3])},
       {FileNode("threat", 602, [severity |-> 4, likelihood |-> l]) : l \in {3, 5}},
       {FileNode("barrier", 603, [effectiveness |-> e, barrier_type |-> t]) :
            e \in BandEffs, t \in BarrierTypes},
       {FileNode("conseq", 604, [severity |-> 1, likelihood |-> 1])} >>

BandFiles ==
    UNION {{[nodes |-> ns, edges |-> es] :
               es \in EdgeListsOver({p \in Ids(ns) \X Ids(ns) : p[1] # p[2]},
                                    MaxBandEdges)} :
           ns \in ListsFrom(BandSlots, 1)}

-----------------------------------------------------------------------------
(* The sessions *)

\* A session of at most MaxClicks buttons, with no file
Next ==
    \/ Canvas
    \/ Rerun
    \/ SetReplaceTopEvent
    \/ \E t_link \in BOOLEAN : AddThreat(t_link)
    \/ \E c_link \in BOOLEAN : AddConsequence(c_link)
    \/ \E b_type \in BarrierTypes, b_eff \in SliderEffs,
          src_pick \in {NonePick} \cup Ids(nodes),
          tgt_pick \in {TopEventPick} \cup Ids(nodes) :
            AddBarrier(b_type, b_eff, src_pick, tgt_pick)
    \/ \E picked_id \in Ids(nodes) : DeleteNode(picked_id)
    \/ \E picked_id \in Ids(nodes), sev \in Severities, lik \in Likelihoods,
          eff \in SliderEffs, btype \in BarrierTypes :
            SaveRisk(picked_id, sev, lik, eff, btype)
    \/ \E src \in Ids(nodes), tgt \in Ids(nodes) : AddEdge(src, tgt)
    \/ \E i \in DOMAIN edges : DeleteEdge(edges[i].id)

Spec == Init /\ [][Next]_vars

\* A session in which the user uploads a file to the freshly started app
UploadFile ==
    /\ clicks = 0
    /\ \E file_nodes \in FileNodeLists :
           \E file_edges \in FileEdgeLists(file_nodes) :
               LoadFromJSON(file_nodes, file_edges)

NextFile ==
    \/ Canvas
    \/ Rerun
    \/ UploadFile

SpecFile == Init /\ [][NextFile]_vars

\* A session in which the user uploads a file with missing attributes
UploadIncomplete ==
    /\ clicks = 0
    /\ \E f \in IncompleteFiles : LoadFromJSON(f.nodes, f.edges)

NextIncomplete ==
    \/ Canvas
    \/ Rerun
    \/ UploadIncomplete

SpecIncomplete == Init /\ [][NextIncomplete]_vars

\* A session in which the user uploads a file with attributes that are no numbers
UploadMalformed ==
    /\ clicks = 0
    /\ \E f \in MalformedFiles : LoadFromJSON(f.nodes, f.edges)

NextMalformed ==
    \/ Canvas
    \/ Rerun
    \/ UploadMalformed

SpecMalformed == Init /\ [][NextMalformed]_vars

\* A session in which the user uploads a file with a malformed topology
UploadTopology ==
    /\ clicks = 0
    /\ \E f \in TopologyFiles : LoadFromJSON(f.nodes, f.edges)

NextTopology ==
    \/ Canvas
    \/ Rerun
    \/ UploadTopology

SpecTopology == Init /\ [][NextTopology]_vars

\* A session in which the user uploads a file with values next to the band thresholds
UploadBands ==
    /\ clicks = 0
    /\ \E f \in BandFiles : LoadFromJSON(f.nodes, f.edges)

NextBands ==
    \/ Canvas
    \/ Rerun
    \/ UploadBands

SpecBands == Init /\ [][NextBands]_vars

-----------------------------------------------------------------------------
(* Calls of _combined_eff on its own *)

MaxEffs == 3

\* integers below 0, within 0..100 and above 100
EffInputs == {-20, 0, 5, 10, 50, 100, 130}

EffLists == UNION {[1..n -> EffInputs] : n \in 0..MaxEffs}

InitCombine ==
    /\ effs_in \in EffLists
    /\ combined = Q(0)
    /\ pc = "call"
    /\ nodes = <<>>
    /\ edges = <<>>
    /\ click = "start"
    /\ warned = FALSE
    /\ nextId = 1
    /\ clicks = 0
    /\ file = NoFile
    /\ load_error = FALSE

Combine ==
    /\ pc = "call"
    /\ combined' = _combined_eff(effs_in)
    /\ pc' = "return"
    /\ UNCHANGED <<nodes, edges, click, warned, nextId, clicks, file, load_error, effs_in>>

NextCombine == Combine

SpecCombine == InitCombine /\ [][NextCombine]_vars

-----------------------------------------------------------------------------
(* The risk model as the specification states it, on the rendered graph *)

Rendered == pc = "canvas"

NodesOf(prefix) == {i \in DOMAIN nodes : nodes[i].id.prefix = prefix}

RiskNodes == NodesOf("threat") \cup NodesOf("center") \cup NodesOf("conseq")

HasEdge(i, j) ==
    \E k \in DOMAIN edges :
        edges[k].source = nodes[i].id /\ edges[k].target = nodes[j].id

HasTopEvent == NodesOf("center") # {}

\* the authoritative Top Event: the most recently created one
TopEvent == CHOOSE i \in NodesOf("center") : \A j \in NodesOf("center") : j <= i

Preventive(b) == nodes[b].meta["barrier_type"] = "preventive"
Mitigative(b) == nodes[b].meta["barrier_type"] = "mitigative"

Base(i) == Q(nodes[i].meta["severity"] * nodes[i].meta["likelihood"])
BaseRisk(i) == nodes[i].meta["base_risk"]
CurrentRisk(i) == nodes[i].meta["current_risk"]
ResidualRisk(i) == nodes[i].meta["residual_risk"]

\* e/100 with e clamped to 0..100
Interception(b) ==
    LET e == nodes[b].meta["effectiveness"]
    IN  Frac(IF e < 0 THEN 0 ELSE IF e > 100 THEN 100 ELSE e, 100)

\* the probability that none of the barriers of B intercepts
RECURSIVE NoneIntercepts(_)
NoneIntercepts(B) ==
    IF B = {} THEN Q(1)
    ELSE LET b == CHOOSE x \in B : TRUE
         IN  RMul(RSub(Q(1), Interception(b)), NoneIntercepts(B \ {b}))

CombinedEffectiveness(B) == RSub(Q(1), NoneIntercepts(B))

\* base reduced by the barriers of B
Reduced(x, B) == RMul(x, RSub(Q(1), CombinedEffectiveness(B)))

\* Ownership rule: (a) an edge threat -> barrier, or (b) an edge barrier -> Top Event
OwnedPreventive(t) ==
    {b \in NodesOf("barrier") :
        /\ Preventive(b)
        /\ \/ HasEdge(t, b)
           \/ HasTopEvent /\ HasEdge(b, TopEvent)}

RECURSIVE SumOfResiduals(_)
SumOfResiduals(T) ==
    IF T = {} THEN Q(0)
    ELSE LET t == CHOOSE x \in T : TRUE
         IN  RAdd(ResidualRisk(t), SumOfResiduals(T \ {t}))

-----------------------------------------------------------------------------
(* Properties of the specification *)

\* C1: Idempotence.  Once compute has run, running it again on the unchanged
\* graph leaves every node (base, current and residual risk, tint, every other
\* attribute) exactly as it is.
C1_Idempotent == Rendered => compute_residuals_aggregated(nodes, edges) = nodes

\* A loaded bow-tie (computed by the load handler, then again by the canvas
\* block) with a threat reduced by a barrier and a consequence at risk
C1_Witness ==
    /\ Rendered
    /\ click = "Load from JSON"
    /\ HasTopEvent
    /\ \E t \in NodesOf("threat"), q \in NodesOf("conseq") :
          /\ OwnedPreventive(t) # {}
          /\ RLt(Q(0), ResidualRisk(t))
          /\ RLt(ResidualRisk(t), BaseRisk(t))
          /\ RLt(Q(0), ResidualRisk(q))

\* C2: Pass 1.  After compute every Threat has baseRisk = severity x likelihood
\* and currentRisk = residualRisk = baseRisk x (1 - CombinedEffectiveness of its
\* owned preventive barriers).
C2_ThreatFormula ==
    Rendered =>
        \A t \in NodesOf("threat") :
            /\ BaseRisk(t) = Base(t)
            /\ CurrentRisk(t) = ResidualRisk(t)
            /\ ResidualRisk(t) = Reduced(BaseRisk(t), OwnedPreventive(t))

\* Two threats of severity 4 and likelihood 5: one with no owned barrier keeps
\* 20, one with a single owned preventive barrier at 50% has 10
C2_Witness ==
    /\ Rendered
    /\ \E t1 \in NodesOf("threat"), t2 \in NodesOf("threat"), b \in NodesOf("barrier") :
          /\ nodes[t1].meta["severity"] = 4 /\ nodes[t1].meta["likelihood"] = 5
          /\ nodes[t2].meta["severity"] = 4 /\ nodes[t2].meta["likelihood"] = 5
          /\ OwnedPreventive(t1) = {}
          /\ BaseRisk(t1) = Q(20) /\ ResidualRisk(t1) = Q(20)
          /\ OwnedPreventive(t2) = {b}
          /\ nodes[b].meta["effectiveness"] = 50
          /\ ResidualRisk(t2) = Q(10)

\* C3: Ownership.  The barriers credited to a Threat in Pass 1 are exactly the
\* preventive Barriers with an edge from the Threat or an edge into the
\* authoritative Top Event; a barrier under both rules is credited once.
C3_Ownership ==
    Rendered =>
        \A t \in NodesOf("threat") :
            /\ credited_barriers(nodes,
                   owned_barriers(nodes, edges, nodes[t], center_id_of(nodes)))
                 = {nodes[b].id : b \in OwnedPreventive(t)}
            /\ \A b \in NodesOf("barrier") :
                   (/\ OwnedPreventive(t) = {b}
                    /\ HasEdge(t, b)
                    /\ HasTopEvent /\ HasEdge(b, TopEvent))
                   => ResidualRisk(t) = RMul(Base(t), RSub(Q(1), Interception(b)))

\* A preventive barrier at 50% feeds the Top Event and is joined to the threat
\* by no edge: the threat is halved; the mitigative barrier the threat points
\* at gives nothing
C3_Witness ==
    /\ Rendered
    /\ HasTopEvent
    /\ \E t \in NodesOf("threat"), b1 \in NodesOf("barrier"), b2 \in NodesOf("barrier") :
          /\ Preventive(b1) /\ nodes[b1].meta["effectiveness"] = 50
          /\ HasEdge(b1, TopEvent) /\ ~HasEdge(t, b1) /\ ~HasEdge(b1, t)
          /\ Mitigative(b2) /\ nodes[b2].meta["effectiveness"] = 75
          /\ HasEdge(t, b2)
          /\ RMul(Q(2), ResidualRisk(t)) = Base(t)

\* the preventive Barriers with an edge into the Top Event
CenterPreventive == {b \in NodesOf("barrier") : Preventive(b) /\ HasEdge(b, TopEvent)}

\* C4: Pass 2.  After compute the authoritative Top Event has currentRisk = the
\* sum of the residualRisk of all Threats and residualRisk = currentRisk x
\* (1 - CombinedEffectiveness of the preventive Barriers with an edge into it).
C4_TopEventFormula ==
    (Rendered /\ HasTopEvent) =>
        /\ CurrentRisk(TopEvent) = SumOfResiduals(NodesOf("threat"))
        /\ ResidualRisk(TopEvent) = Reduced(CurrentRisk(TopEvent), CenterPreventive)

\* the mitigative Barriers with an edge into consequence q
Mitigating(q) == {b \in NodesOf("barrier") : Mitigative(b) /\ HasEdge(b, q)}

\* C5: Pass 3.  After compute every Consequence has baseRisk = severity x
\* likelihood, currentRisk = Top Event residualRisk x baseRisk and residualRisk =
\* currentRisk x (1 - CombinedEffectiveness of the mitigative Barriers with an
\* edge into it).
C5_ConsequenceFormula ==
    (Rendered /\ HasTopEvent) =>
        \A q \in NodesOf("conseq") :
            /\ BaseRisk(q) = Base(q)
            /\ CurrentRisk(q) = RMul(ResidualRisk(TopEvent), BaseRisk(q))
            /\ ResidualRisk(q) = Reduced(CurrentRisk(q), Mitigating(q))

\* C6: Missing Top Event.  In a graph with no Top Event compute sets currentRisk
\* and residualRisk of every Consequence to 0 and computes the Threats by the
\* Pass 1 formula.
C6_MissingTopEvent ==
    (Rendered /\ ~HasTopEvent) =>
        /\ \A q \in NodesOf("conseq") :
               CurrentRisk(q) = Q(0) /\ ResidualRisk(q) = Q(0)
        /\ \A t \in NodesOf("threat") :
               /\ BaseRisk(t) = Base(t)
               /\ CurrentRisk(t) = ResidualRisk(t)
               /\ ResidualRisk(t) = Reduced(BaseRisk(t), OwnedPreventive(t))

\* The Top Event has just been deleted from a graph with a threat at risk and
\* a consequence
C6_Witness ==
    /\ Rendered
    /\ click = "Delete node"
    /\ ~HasTopEvent
    /\ \E t \in NodesOf("threat") : RLt(Q(0), ResidualRisk(t))
    /\ \E q \in NodesOf("conseq") : ResidualRisk(q) = Q(0)

\* C7: Ambiguous Top Event.  With more than one Top Event compute uses the most
\* recently created one for ownership rule (b), for Pass 2 and as the residual
\* that feeds Pass 3; a barrier whose only edge goes to an older Top Event
\* gives no shared and no center-level credit.
C7_AmbiguousTopEvent ==
    (Rendered /\ Cardinality(NodesOf("center")) > 1) =>
        /\ \A t \in NodesOf("threat") :
               ResidualRisk(t) =
                   Reduced(Base(t), {b \in NodesOf("barrier") :
                                        /\ Preventive(b)
                                        /\ HasEdge(t, b) \/ HasEdge(b, TopEvent)})
        /\ CurrentRisk(TopEvent) = SumOfResiduals(NodesOf("threat"))
        /\ CenterPreventive = {} => ResidualRisk(TopEvent) = CurrentRisk(TopEvent)
        /\ \A q \in NodesOf("conseq") :
               CurrentRisk(q) = RMul(ResidualRisk(TopEvent), Base(q))

\* Two Top Events; a preventive barrier at 50% points at the older one only:
\* the threat keeps its base risk and the newer Top Event the whole sum
C7_Witness ==
    /\ Rendered
    /\ Cardinality(NodesOf("center")) = 2
    /\ \E t \in NodesOf("threat"), b \in NodesOf("barrier"), old \in NodesOf("center") :
          /\ old # TopEvent
          /\ Preventive(b) /\ nodes[b].meta["effectiveness"] = 50
          /\ HasEdge(b, old) /\ ~HasEdge(b, TopEvent) /\ ~HasEdge(t, b)
          /\ ResidualRisk(t) = Base(t)
          /\ CurrentRisk(TopEvent) = ResidualRisk(t)
          /\ ResidualRisk(TopEvent) = CurrentRisk(TopEvent)

\* the graph with the effectiveness of barrier b set to e
WithEffectiveness(b, e) == [nodes EXCEPT ![b].meta = Put(@, "effectiveness", e)]

\* the values of the family above e that no other value of the family separates
\* from e: every raise within the family is a chain of such steps, and every
\* graph along the chain is a graph of the family
Raised(e) == {x \in FileEffs : x > e /\ ~\E y \in FileEffs : e < y /\ y < x}

\* C8: Monotonicity.  Raising one Barrier's effectiveness, all else fixed,
\* raises the residualRisk of no Threat, Top Event or Consequence.
C8_Monotone ==
    Rendered =>
        \A b \in NodesOf("barrier") :
            \A e \in Raised(nodes[b].meta["effectiveness"]) :
                LET after == compute_residuals_aggregated(WithEffectiveness(b, e), edges)
                IN  \A i \in RiskNodes :
                        RLe(after[i].meta["residual_risk"], ResidualRisk(i))

\* Raising the threat's own barrier from 50% to 75% lowers the residual of the
\* threat and of the Top Event
C8_Witness ==
    /\ Rendered
    /\ HasTopEvent
    /\ \E t \in NodesOf("threat"), b \in NodesOf("barrier") :
          /\ nodes[b].meta["effectiveness"] = 50
          /\ OwnedPreventive(t) = {b}
          /\ LET after == compute_residuals_aggregated(WithEffectiveness(b, 75), edges)
             IN  /\ RLt(after[t].meta["residual_risk"], ResidualRisk(t))
                 /\ RLt(after[TopEvent].meta["residual_risk"], ResidualRisk(TopEvent))

\* C9: Base-risk invariant.  After every compute run every node of every kind
\* has baseRisk = its current severity x likelihood.
C9_BaseRiskEveryNode ==
    Rendered => \A i \in DOMAIN nodes : BaseRisk(i) = Base(i)

\* C10: Non-negativity and ordering.  After compute every Threat, Top Event and
\* Consequence has baseRisk >= 0 and 0 <= residualRisk <= currentRisk, and every
\* Threat has residualRisk <= baseRisk, whatever the barriers' effectiveness.
C10_NonNegative ==
    Rendered =>
        \A i \in RiskNodes :
            /\ RLe(Q(0), BaseRisk(i))
            /\ RLe(Q(0), ResidualRisk(i))
            /\ RLe(ResidualRisk(i), CurrentRisk(i))
            /\ i \in NodesOf("threat") => RLe(ResidualRisk(i), BaseRisk(i))

\* One threat owns a barrier of effectiveness 130 and is reduced to 0, another
\* owns a barrier of effectiveness -20 and keeps its base risk
C10_Witness ==
    /\ Rendered
    /\ \E t1 \in NodesOf("threat"), t2 \in NodesOf("threat"),
          b1 \in NodesOf("barrier"), b2 \in NodesOf("barrier") :
          /\ nodes[b1].meta["effectiveness"] = 130 /\ OwnedPreventive(t1) = {b1}
          /\ ResidualRisk(t1) = Q(0)
          /\ nodes[b2].meta["effectiveness"] = -20 /\ OwnedPreventive(t2) = {b2}
          /\ ResidualRisk(t2) = BaseRisk(t2)

\* clamp(e, 0, 100) / 100
Clamped(e) == Frac(IF e < 0 THEN 0 ELSE IF e > 100 THEN 100 ELSE e, 100)

\* the product of 1 - clamp(e_i, 0, 100)/100 over the sequence es
RECURSIVE ProductOfComplements(_)
ProductOfComplements(es) ==
    IF es = <<>> THEN Q(1)
    ELSE RMul(RSub(Q(1), Clamped(Head(es))), ProductOfComplements(Tail(es)))

\* the sequence es read in the order p, a permutation of its indices
Reordered(es, p) == [i \in DOMAIN es |-> es[p[i]]]

DocumentedDefaults(prefix) ==
    IF prefix = "barrier"
    THEN [severity |-> 3, likelihood |-> 3, effectiveness |-> 0, barrier_type |-> "preventive"]
    ELSE [severity |-> 3, likelihood |-> 3]

\* the nodes of a file with every missing attribute written out
Filled(file_nodes) ==
    [i \in DOMAIN file_nodes |->
        [file_nodes[i] EXCEPT !.meta = @ @@ DocumentedDefaults(file_nodes[i].id.prefix)]]

Loaded == Rendered /\ file # NoFile

\* the file gave node i no attribute k
Missing(i, k) == k \notin DOMAIN file.nodes[i].meta

\* C12: Defaults for missing attributes.  A Threat, Top Event or Consequence
\* with no severity or no likelihood is computed as if the missing value were 3;
\* a Barrier with no effectiveness contributes 0 to every combination, and a
\* Barrier with no barrierType is treated as preventive in all passes (credited
\* in Pass 1 and Pass 2, never counted as mitigative in Pass 3).
C12_Defaults ==
    Loaded =>
        /\ nodes = compute_residuals_aggregated(Filled(file.nodes), file.edges)
        /\ \A b \in NodesOf("barrier") :
              /\ Missing(b, "effectiveness") => Interception(b) = Q(0)
              /\ Missing(b, "barrier_type") =>
                    /\ \A t \in NodesOf("threat") :
                          (HasEdge(t, b) \/ (HasTopEvent /\ HasEdge(b, TopEvent)))
                          => /\ b \in OwnedPreventive(t)
                             /\ ResidualRisk(t) = Reduced(BaseRisk(t), OwnedPreventive(t))
                    /\ (HasTopEvent /\ HasEdge(b, TopEvent))
                          => /\ b \in CenterPreventive
                             /\ ResidualRisk(TopEvent)
                                  = Reduced(CurrentRisk(TopEvent), CenterPreventive)
                    /\ \A q \in NodesOf("conseq") :
                          /\ b \notin Mitigating(q)
                          /\ ResidualRisk(q) = Reduced(CurrentRisk(q), Mitigating(q))

\* A threat with no severity and likelihood 5 has base risk 15; a barrier of
\* effectiveness 50 with no barrier_type feeds the Top Event and a consequence:
\* the threat is halved, the Top Event halved again, the consequence not reduced
C12_Witness ==
    /\ Loaded
    /\ HasTopEvent
    /\ \E t \in NodesOf("threat"), b \in NodesOf("barrier"), q \in NodesOf("conseq") :
          /\ file.nodes[t].meta = [likelihood |-> 5]
          /\ BaseRisk(t) = Q(15)
          /\ file.nodes[b].meta = [effectiveness |-> 50]
          /\ HasEdge(b, TopEvent) /\ HasEdge(b, q)
          /\ ResidualRisk(t) = <<15, 2>>
          /\ ResidualRisk(TopEvent) = <<15, 4>>
          /\ RLt(Q(0), ResidualRisk(q))
          /\ ResidualRisk(q) = CurrentRisk(q)

\* the value the specification reads for an attribute that is no number
Recovered(k, v) ==
    IF k \in {"severity", "likelihood", "effectiveness"} /\ int_raises(v)
    THEN DocumentedDefaults("barrier")[k]
    ELSE v

\* the nodes of a file with every attribute that is no number replaced
Repaired(file_nodes) ==
    [i \in DOMAIN file_nodes |->
        [file_nodes[i] EXCEPT
            !.meta = [k \in DOMAIN file_nodes[i].meta |-> Recovered(k, file_nodes[i].meta[k])]]]

\* C13: MalformedAttribute recovery.  When a severity, likelihood or
\* effectiveness is present but no number, compute does not fail: it uses the
\* default (3, 3, 0) for that attribute and still produces derived values for
\* every node.
C13_MalformedRecovered ==
    /\ ~load_error
    /\ pc # "error"
    /\ Loaded =>
          \A i \in DOMAIN nodes :
              /\ BaseRisk(i) = compute_residuals_aggregated(Repaired(file.nodes), file.edges)[i]
                                   .meta["base_risk"]
              /\ CurrentRisk(i) = compute_residuals_aggregated(Repaired(file.nodes), file.edges)[i]
                                   .meta["current_risk"]
              /\ ResidualRisk(i) = compute_residuals_aggregated(Repaired(file.nodes), file.edges)[i]
                                   .meta["residual_risk"]

\* an edge whose source or target is the id of no node
Dangling(e) == e.source \notin Ids(nodes) \/ e.target \notin Ids(nodes)

WithoutDangling == SelectSeq(edges, LAMBDA e : ~Dangling(e))

\* a barrier no edge starts from or ends at
Orphan(b) ==
    /\ b \in NodesOf("barrier")
    /\ \A j \in DOMAIN edges : edges[j].source # nodes[b].id /\ edges[j].target # nodes[b].id

\* the node list without its b-th node
Without(b) == SubSeq(nodes, 1, b - 1) \o SubSeq(nodes, b + 1, Len(nodes))

\* the risk values of the node with the given id in a node list
RiskValues(ns, id) ==
    [k \in {"base_risk", "current_risk", "residual_risk"} |-> nodes_by_id(ns, id).meta[k]]

\* one edge (a self-loop) or two edges lead from a node back to itself
Cyclic ==
    \E j, k \in DOMAIN edges :
        edges[j].target = edges[k].source /\ edges[k].target = edges[j].source

\* C14: Malformed topology is never fatal.  For a graph with cycles,
\* disconnected nodes, orphan Barriers or edges whose source or target names no
\* node, compute does not raise, every Threat, Top Event and Consequence has
\* its derived values, the values are those of the same graph with the
\* dangling edges removed, and an orphan Barrier changes no risk value.
C14_MalformedTopology ==
    /\ ~load_error
    /\ pc # "error"
    /\ Loaded =>
          /\ ~compute_raises(file.nodes, file.edges)
          /\ \A i \in RiskNodes :
                 {"base_risk", "current_risk", "residual_risk"} \subseteq DOMAIN nodes[i].meta
          /\ nodes = compute_residuals_aggregated(jsonable_to_state(file.nodes), WithoutDangling)
          /\ \A b \in DOMAIN nodes :
                 Orphan(b) =>
                     \A i \in RiskNodes :
                         RiskValues(compute_residuals_aggregated(Without(b), edges), nodes[i].id)
                             = RiskValues(nodes, nodes[i].id)

\* a loaded graph with a Threat, a Top Event, a Consequence and an orphan
\* preventive Barrier, one edge that closes a cycle and one that names no node
C14_Witness ==
    /\ Loaded
    /\ Len(nodes) = 4
    /\ \E b \in NodesOf("barrier") : Preventive(b) /\ Orphan(b)
    /\ Cyclic
    /\ \E j \in DOMAIN edges : Dangling(edges[j])

InputAttributes == {"severity", "likelihood", "effectiveness", "barrier_type"}
DerivedFields == {"base_risk", "current_risk", "residual_risk"}

\* what a compute run may change between the node lists before and after
Frame(before, after) ==
    /\ Len(after) = Len(before)
    /\ \A i \in DOMAIN before :
           /\ after[i].id = before[i].id
           /\ DOMAIN before[i].meta \subseteq DOMAIN after[i].meta
           /\ DOMAIN after[i].meta \subseteq
                  DOMAIN before[i].meta \cup InputAttributes \cup DerivedFields
           /\ \A k \in DOMAIN before[i].meta \ DerivedFields :
                  after[i].meta[k] = before[i].meta[k]

\* the step of the script run in which compute runs and the canvas is rendered
ComputeRun == pc = "script" /\ pc' = "canvas"

\* C15: Frame of compute.  A compute run adds or removes no node and no edge,
\* changes no edge's source or target and no severity, likelihood,
\* effectiveness or barrierType that was present before the run; it writes
\* only the derived risk fields, the display colour and the defaults of
\* attributes that were absent.
C15_Frame ==
    [][ComputeRun => Frame(nodes, nodes') /\ edges' = edges]_vars

\* compute has run on a Barrier whose four attributes the user has saved, and
\* has tinted it
C15_Witness ==
    /\ Rendered
    /\ click = "Save risk"
    /\ \E b \in NodesOf("barrier") :
           /\ nodes[b].meta["severity"] = 4
           /\ nodes[b].meta["likelihood"] = 5
           /\ nodes[b].meta["effectiveness"] = 75
           /\ nodes[b].meta["barrier_type"] = "mitigative"
           /\ nodes[b].bg = GREEN

\* C16: Cascade delete, no dangling edges.  Delete node and Set-Replace Top
\* Event remove every edge whose source or target is a removed node: after any
\* sequence of editing actions, the source and the target of every edge are
\* ids of nodes of the graph.
C16_NoDanglingEdges ==
    \A j \in DOMAIN edges :
        edges[j].source \in Ids(nodes) /\ edges[j].target \in Ids(nodes)

\* the second button of the session was Delete node, and it removed the
\* Barrier that Add Barrier had created with at least one edge (to the Top
\* Event or to the picked target): no Barrier and no edge are left
C16_Witness ==
    /\ Rendered
    /\ click = "Delete node"
    /\ clicks = 2
    /\ nextId = 4
    /\ Ids(nodes) = {uid("center", 0)}
    /\ edges = <<>>

\* the tint of the band of a risk value: High, Medium, Low
RiskBand(r) ==
    IF ~RLt(r, Q(20)) THEN "#fecaca"
    ELSE IF ~RLt(r, Q(12)) THEN "#fde68a"
    ELSE "#dcfce7"

\* the tint of the band of an effectiveness in percent: Good, Fair, Poor
BarrierBand(e) ==
    IF ~RLt(Clamped(e), Frac(75, 100)) THEN "#dcfce7"
    ELSE IF ~RLt(Clamped(e), Frac(40, 100)) THEN "#fde68a"
    ELSE "#fee2e2"

\* the nodes compute gives a risk band: the Threats, the Consequences and the
\* Top Event
Banded ==
    NodesOf("threat") \cup NodesOf("conseq") \cup (IF HasTopEvent THEN {TopEvent} ELSE {})

\* C17: Display band assigned by compute.  Every Threat, Top Event and
\* Consequence has the band of its unrounded residualRisk of the same run
\* (>= 20 High, >= 12 Medium, otherwise Low); every Barrier has the band of
\* its own effectiveness clamped to 0..100 (>= 75 Good, >= 40 Fair, otherwise
\* Poor), whatever its barrierType, its edges and the risk values.
C17_DisplayBand ==
    Loaded =>
        /\ \A i \in Banded : nodes[i].bg = RiskBand(ResidualRisk(i))
        /\ \A b \in NodesOf("barrier") : nodes[b].bg = BarrierBand(nodes[b].meta["effectiveness"])

\* a Threat of base risk 20 behind a preventive Barrier at 1%: its residual
\* 19.8 is Medium though it rounds to 20, and the Barrier is Poor
C17_Witness ==
    /\ Loaded
    /\ \E t \in NodesOf("threat"), b \in NodesOf("barrier") :
           /\ HasEdge(t, b)
           /\ Preventive(b)
           /\ nodes[b].meta["effectiveness"] = 1
           /\ ResidualRisk(t) = Frac(198, 10)
           /\ nodes[t].bg = "#fde68a"
           /\ nodes[b].bg = "#fee2e2"

\* the derived risk fields of the i-th node of a node list
DerivedAt(ns, i) == [k \in DerivedFields |-> ns[i].meta[k]]

\* C18: Recompute after every mutation.  Every editing action (add or delete
\* a node or an edge, Save risk, Set-Replace Top Event, load from file) is
\* followed by a compute run before the canvas is next rendered: in every
\* rendered state the baseRisk, currentRisk and residualRisk of each Threat,
\* Top Event and Consequence are what compute yields for the current nodes,
\* edges and attributes.
C18_RecomputedBeforeRender ==
    Rendered =>
        /\ ~compute_raises(nodes, edges)
        /\ \A i \in RiskNodes :
               DerivedAt(nodes, i) = DerivedAt(compute_residuals_aggregated(nodes, edges), i)

\* no edge of es from a node to itself, no two edges of es with the same
\* source and target
NoSelfLoop(es) == \A j \in DOMAIN es : es[j].source # es[j].target

NoDuplicate(es) ==
    \A j, k \in DOMAIN es :
        (es[j].source = es[k].source /\ es[j].target = es[k].target) => j = k

\* the step in which the Add edge button is handled
AddEdgeStep == clicks' = clicks + 1 /\ click' = "Add edge"

\* the edge list has one more edge at its end, which is no self-loop and whose
\* (source, target) pair no edge had
Connected ==
    /\ Len(edges') = Len(edges) + 1
    /\ SubSeq(edges', 1, Len(edges)) = edges
    /\ edges'[Len(edges')].source # edges'[Len(edges')].target
    /\ \A j \in DOMAIN edges :
           ~(edges[j].source = edges'[Len(edges')].source
             /\ edges[j].target = edges'[Len(edges')].target)

\* C19: No self-loops and no duplicate edges.  Add edge with source = target
\* or with a (source, target) pair an edge already has leaves the edge list
\* unchanged and warns; after any sequence of editing actions no edge has
\* source = target and no two edges share their (source, target) pair.
C19_NoSelfLoopNoDuplicate ==
    [][/\ NoSelfLoop(edges') /\ NoDuplicate(edges')
       /\ AddEdgeStep => \/ warned' /\ edges' = edges
                         \/ ~warned' /\ Connected]_vars

\* Add edge has been refused with the warning, in a graph of two nodes and
\* one edge: the picked pair was a node and itself or the pair of that edge
C19_Witness ==
    /\ click = "Add edge"
    /\ warned
    /\ Len(nodes) = 2
    /\ Len(edges) = 1

\* no edge starts from or ends at the i-th node
NoIncidentEdge(i) ==
    \A j \in DOMAIN edges : edges[j].source # nodes[i].id /\ edges[j].target # nodes[i].id

\* C20: At most one Top Event through the editing interface.  From the initial
\* state and after any sequence of editing actions, with no file load, the
\* graph holds at most one Top Event; after Set-Replace Top Event it holds
\* exactly one, and that one has no incident edge.
C20_AtMostOneTopEvent ==
    /\ Cardinality(NodesOf("center")) <= 1
    /\ click = "Set / Replace Top Event" =>
           /\ Cardinality(NodesOf("center")) = 1
           /\ NoIncidentEdge(TopEvent)

\* Set / Replace Top Event was pressed after Add Barrier, which had connected
\* the Barrier with the first Top Event: the graph holds the Barrier and the
\* new Top Event center_4 and no edge
C20_Witness ==
    /\ Rendered
    /\ click = "Set / Replace Top Event"
    /\ clicks = 2
    /\ Ids(nodes) = {uid("barrier", 1), uid("center", 4)}
    /\ edges = <<>>

\* the edges of es from the j-th on whose (source, target) pair no earlier
\* edge of es has
RECURSIVE OnePerPair(_, _)
OnePerPair(es, j) ==
    IF j > Len(es) THEN <<>>
    ELSE IF \E k \in 1..(j - 1) :
                es[k].source = es[j].source /\ es[k].target = es[j].target
         THEN OnePerPair(es, j + 1)
         ELSE <<es[j]>> \o OnePerPair(es, j + 1)

\* C21: Edge multiplicity does not matter.  A second edge with the source and
\* target of an existing edge changes no node's currentRisk or residualRisk:
\* the values of a graph are those of the same graph with one edge per
\* (source, target) pair.
C21_EdgeMultiplicity ==
    Rendered =>
        \A i \in DOMAIN nodes :
            /\ CurrentRisk(i) =
                   compute_residuals_aggregated(nodes, OnePerPair(edges, 1))[i].meta["current_risk"]
            /\ ResidualRisk(i) =
                   compute_residuals_aggregated(nodes, OnePerPair(edges, 1))[i].meta["residual_risk"]

=============================================================================
